---- MODULE Spec2Model ----
(***************************************************************************)
(* Model of data/datamodule.py (class DataModule): timeframe resolution,   *)
(* start-up validation, the paginated downloader, the cache-file lifecycle *)
(* and the range reconciliation of read_data_from_datafile.                *)
(*                                                                         *)
(* Conventions.  A Python value that may be None is a sequence of length   *)
(* at most one: << >> is None and <<v>> is the value v.  A string that the *)
(* code parses (the timeframe, a pair "AAA/BBB") is a sequence of          *)
(* one-character strings.  A DataFrame is the sequence of its 'time'       *)
(* column (= its index): with a deterministic exchange every other column  *)
(* of a candle is a function of its timestamp.                             *)
(***************************************************************************)
EXTENDS Integers, Sequences, FiniteSets, TLC

\* ------------------------------------------------------------------ bounds
\* Configured dates are the days 0 .. MaxDay after the epoch.
MaxDay == 2
\* Longest timeframe string drawn for the timeframe resolver.
MaxLen == 3
\* Number of readings of the exchange clock ('backtesting-till-now' runs).
MaxClock == 1

\* ------------------------------------------------------- module constants
msec == 1000
minute == 60 * msec
hour == 60 * minute
day == 24 * hour
fetch_ohlcv_limit == 1000

None == << >>
Some(v) == <<v>>
IsNone(o) == o = << >>
Val(o) == o[1]

Min(a, b) == IF a <= b THEN a ELSE b

\* ------------------------------------------------------ timeframe strings
Digits == {"0", "1", "2", "3", "4", "5", "6", "7", "8", "9"}
DigitVal(c) ==
  CASE c = "0" -> 0 [] c = "1" -> 1 [] c = "2" -> 2 [] c = "3" -> 3
    [] c = "4" -> 4 [] c = "5" -> 5 [] c = "6" -> 6 [] c = "7" -> 7
    [] c = "8" -> 8 [] c = "9" -> 9

\* int(s) of a run of decimal digits.
RECURSIVE IntOf(_)
IntOf(s) ==
  IF s = << >> THEN 0
  ELSE 10 * IntOf(SubSeq(s, 1, Len(s) - 1)) + DigitVal(s[Len(s)])

\* Length of the longest run of digits that starts at position i of s.
RECURSIVE DigitRun(_, _)
DigitRun(s, i) ==
  IF i <= Len(s) /\ s[i] \in Digits THEN 1 + DigitRun(s, i + 1) ELSE 0

\* Length of the longest run of non-digits that starts at position i of s.
RECURSIVE OtherRun(_, _)
OtherRun(s, i) ==
  IF i <= Len(s) /\ s[i] \notin Digits THEN 1 + OtherRun(s, i + 1) ELSE 0

\* re.match(r"([0-9]+)([mdh])", timeframe, re.I): anchored at the start only,
\* case-insensitive, anything may follow the unit.
ReMatch(timeframe) ==
  LET n == DigitRun(timeframe, 1)
  IN  /\ n >= 1
      /\ Len(timeframe) > n
      /\ timeframe[n + 1] \in {"m", "d", "h", "M", "D", "H"}

\* re.split(r'([0-9]+)', timeframe)[1] and [2] for a string that ReMatch
\* accepts: the first run of digits, and the text between it and the next
\* run of digits (or the end of the string).
Items1(timeframe) == SubSeq(timeframe, 1, DigitRun(timeframe, 1))
Items2(timeframe) ==
  LET n == DigitRun(timeframe, 1)
  IN  SubSeq(timeframe, n + 1, n + OtherRun(timeframe, n + 1))

\* The value config_timeframe_calc leaves in self.timeframe_calc when it does
\* not raise SystemExit (the class attribute None when neither branch runs).
TimeframeCalcOf(timeframe) ==
  IF Items2(timeframe) = <<"m">> THEN Some(IntOf(Items1(timeframe)) * minute)
  ELSE IF Items2(timeframe) = <<"h">> THEN Some(IntOf(Items1(timeframe)) * hour)
  ELSE None

\* ------------------------------------------------------------ the exchange
\* The ccxt collaborator.  Exchange ids that are attributes of ccxt, whether
\* the exchange has fetchOHLCV, and its 'timeframes' table (None: the
\* attribute is missing).
Tf1m == <<"1", "m">>
Tf1h == <<"1", "h">>
Tf12h == <<"1", "2", "h">>
Tf1d == <<"1", "d">>
KnownExchanges == {"binance", "noohlcv", "notimeframes"}
HasFetchOHLCV(id) == id # "noohlcv"
Timeframes(id) ==
  IF id = "notimeframes" THEN None ELSE Some({Tf1m, Tf1h, Tf12h, Tf1d})

\* The bucket length the exchange itself uses for a timeframe it supports.
ExchangeDuration(timeframe) ==
  CASE timeframe = Tf1m -> minute
    [] timeframe = Tf1h -> hour
    [] timeframe = Tf1d -> day
    [] OTHER -> 12 * hour

\* exchange.parse8601("%sT00:00:00Z" % date): midnight of the day in epoch
\* milliseconds, None for a string that is no date.
parse8601(date) == IF date.valid THEN Some(date.day * day) ELSE None

\* exchange.milliseconds() at the k-th reading of the clock (k >= 1): the
\* clock only moves forward; odd readings fall inside a bucket, even
\* readings on a bucket boundary.
milliseconds(k) == k * day + (k % 2) * hour

\* exchange.fetch_ohlcv(symbol, timeframe, since, limit) of an exchange that
\* has candles for the pair from the instant 'listed' on: the buckets
\* since, since + D, ... (limit of them) that exist.
fetch_ohlcv(listed, timeframe, since, limit) ==
  LET D == ExchangeDuration(timeframe)
      asked == [i \in 1..limit |-> since + (i - 1) * D]
  IN  SelectSeq(asked, LAMBDA t : t >= listed)

\* -------------------------------------------------------------- downloader
\* One iteration of the while loop of download_data_for_pair: the request it
\* issues and the cursor it leaves.  remaining_ticks is a float; int() of the
\* asked ticks truncates, and np.around(asked_ticks * timeframe_calc) is the
\* whole rest of the range when fewer than fetch_ohlcv_limit ticks remain.
AskedLimitUncapped(start_date, data_to, tc) ==
  (data_to - start_date) \div tc
AskedLimit(start_date, data_to, tc) ==
  Min((data_to - start_date) \div tc, fetch_ohlcv_limit)
\* remaining_ticks <= fetch_ohlcv_limit, decided without forming the product
\* fetch_ohlcv_limit * tc (the model's integers are 32 bits wide, Python's
\* are not).
WithinOnePage(start_date, data_to, tc) ==
  LET rest == data_to - start_date
  IN  \/ rest \div tc < fetch_ohlcv_limit
      \/ rest \div tc = fetch_ohlcv_limit /\ rest % tc = 0
AdvanceTruncated(start_date, data_to, tc) ==
  AskedLimit(start_date, data_to, tc) * tc
Advance(start_date, data_to, tc) ==
  IF WithinOnePage(start_date, data_to, tc)
  THEN data_to - start_date
  ELSE fetch_ohlcv_limit * tc

\* The requests of the whole loop, in order.
RECURSIVE Pages(_, _, _)
Pages(start_date, data_to, tc) ==
  IF start_date < data_to
  THEN <<[since |-> start_date, limit |-> AskedLimit(start_date, data_to, tc)]>>
       \o Pages(start_date + Advance(start_date, data_to, tc), data_to, tc)
  ELSE << >>

RECURSIVE Responses(_, _, _)
Responses(listed, timeframe, reqs) ==
  IF reqs = << >> THEN << >>
  ELSE fetch_ohlcv(listed, timeframe, Head(reqs).since, Head(reqs).limit)
       \o Responses(listed, timeframe, Tail(reqs))

RECURSIVE SumLimits(_)
SumLimits(reqs) ==
  IF reqs = << >> THEN 0 ELSE Head(reqs).limit + SumLimits(Tail(reqs))

\* download_data_for_pair up to (not including) the save.  from/to/tc are
\* optional values; failAt > 0 makes the failAt-th fetch_ohlcv raise.
\* Comparing with None raises TypeError, dividing by None or 0 raises.
\* full: no fetch_ohlcv raised and each returned as many candles as asked.
DownloadLoop(listed, timeframe, data_from, data_to, tc, failAt) ==
  IF IsNone(data_from) \/ IsNone(data_to)
  THEN [raised |-> TRUE, requests |-> << >>, index |-> << >>, full |-> TRUE]
  ELSE IF ~(Val(data_from) < Val(data_to))
  THEN [raised |-> FALSE, requests |-> << >>, index |-> << >>, full |-> TRUE]
  ELSE IF IsNone(tc) \/ tc = Some(0)
  THEN [raised |-> TRUE, requests |-> << >>, index |-> << >>, full |-> TRUE]
  ELSE LET reqs == Pages(Val(data_from), Val(data_to), Val(tc))
           got == Responses(listed, timeframe, reqs)
       IN  IF failAt \in 1..Len(reqs)
           THEN [raised |-> TRUE, requests |-> SubSeq(reqs, 1, failAt),
                 index |-> << >>, full |-> FALSE]
           ELSE [raised |-> FALSE, requests |-> reqs, index |-> got,
                 full |-> Len(got) = SumLimits(reqs)]

\* ------------------------------------------------------------- cache files
\* pair.split('/') of a pair "AAA/BBB".
RECURSIVE SlashAt(_, _)
SlashAt(pair, i) == IF pair[i] = "/" THEN i ELSE SlashAt(pair, i + 1)
Coin(pair) == SubSeq(pair, 1, SlashAt(pair, 1) - 1)
Base(pair) == SubSeq(pair, SlashAt(pair, 1) + 1, Len(pair))

\* "data-{}{}{}.json".format(coin, base, timeframe)
generate_datafile_name(pair, timeframe) ==
  <<"data-">> \o Coin(pair) \o Base(pair) \o timeframe \o <<".json">>

\* os.path.join("data/backtesting-data/", exchange, filename)
FilePath(exchange_id, pair, timeframe) ==
  <<exchange_id, generate_datafile_name(pair, timeframe)>>

\* What a path holds: nothing, a file that cannot be opened, a file whose
\* content is no JSON, or the record save_dataframe wrote (its 'time' column).
Absent == [kind |-> "absent", rows |-> << >>]
Unreadable == [kind |-> "unreadable", rows |-> << >>]
Corrupt == [kind |-> "corrupt", rows |-> << >>]
Json(rows) == [kind |-> "json", rows |-> rows]

\* save_dataframe: df.to_json(orient="records") keeps the rows in order and
\* drops the index; read_json + set_index('time') rebuilds it from the column.
SaveDropsLast(df) == Json(SubSeq(df, 1, Len(df) - 1))
save_dataframe(df) == Json(df)

\* ------------------------------------------------- read_data_from_datafile
\* list.index(x): position of the first occurrence (1-based here), 0 when the
\* list does not hold x (the code raises ValueError).
RECURSIVE IndexFrom(_, _, _)
IndexFrom(index_list, x, i) ==
  IF i > Len(index_list) THEN 0
  ELSE IF index_list[i] = x THEN i
  ELSE IndexFrom(index_list, x, i + 1)
IndexOf(index_list, x) == IndexFrom(index_list, x, 1)

\* final_timestamp = self.backtesting_to - self.timeframe_calc
FinalTimestampPlain(data_to, tc) == data_to
FinalTimestamp(data_to, tc) == data_to - tc

\* if self.backtesting_from < df_begin
NeedsBefore(data_from, df_begin) == data_from < df_begin
\* if final_timestamp > df_end
NeedsAfter(final_timestamp, df_end) == final_timestamp > df_end
\* the start of the "after" download: download_data_for_pair(pair, df_end, ...)
AfterGapStart(df_end, tc) == df_end

\* df[index_list.index(from) : index_list.index(final_timestamp) + 1]
SliceShort(index_list, data_from, final_timestamp) ==
  SubSeq(index_list, IndexOf(index_list, data_from),
         IndexOf(index_list, final_timestamp) - 1)
SliceRows(index_list, data_from, final_timestamp) ==
  SubSeq(index_list, IndexOf(index_list, data_from),
         IndexOf(index_list, final_timestamp))

\* What read_data_from_datafile hands to save_dataframe: the sliced df.
SavedWhole(extended, sliced) == extended
SavedRows(extended, sliced) == sliced

\* The save argument of the two gap-fill downloads (the literal False).
GapFillSaveOn == TRUE
GapFillSave == FALSE

\* The result of one acquisition: how it ended ("returned", "false" for the
\* False of a failed open, "raised" for an uncaught exception), the series
\* returned, the save_dataframe calls it made in order (each with the rows
\* saved and the number of fetch_ohlcv requests issued before it), the
\* fetch_ohlcv requests it issued, the timestamps the exchange returned and
\* whether every answer was full.
Result(outcome, df, writes, requests, fetched, exact) ==
  [outcome |-> outcome, df |-> df, writes |-> writes,
   requests |-> requests, fetched |-> fetched, exact |-> exact]

Raised(writes, requests, exact) ==
  Result("raised", << >>, writes, requests, << >>, exact)

\* A gap-fill download that is not made.
NoDownload == Result("returned", << >>, << >>, << >>, << >>, TRUE)

\* One save_dataframe call, made after 'after' requests.
Write(rows, after) == [rows |-> rows, after |-> after]

\* Lines 126-132 of download_data_for_pair, for the outcome d of its loop:
\* the DataFrame is built, saved when 'save', and returned.
DownloadReturn(d, save) ==
  IF d.raised THEN Raised(<< >>, d.requests, d.full)
  ELSE Result("returned", d.index,
              IF save THEN <<Write(d.index, Len(d.requests))>> ELSE << >>,
              d.requests, d.index, d.full)

\* download_data_for_pair(pair, data_from, data_to, save)
download_data_for_pair(listed, timeframe, data_from, data_to, tc, save, failAt) ==
  DownloadReturn(DownloadLoop(listed, timeframe, data_from, data_to, tc, failAt),
                 save)

\* The save_dataframe calls of a download made after 'before' requests of
\* the same acquisition.
Later(writes, before) ==
  [i \in 1..Len(writes) |-> Write(writes[i].rows, writes[i].after + before)]

\* Lines 253-261 of read_data_from_datafile, for the outcomes prev_df and
\* new_df of the two gap-fill downloads: concatenate, slice, save, return.
ReadSlice(rows, data_from, final_timestamp, prev_df, new_df) ==
  LET requests == prev_df.requests \o new_df.requests
      writes == prev_df.writes \o Later(new_df.writes, Len(prev_df.requests))
      exact == prev_df.exact /\ new_df.exact
      index_list == prev_df.df \o rows \o new_df.df
      sliced == SliceRows(index_list, data_from, final_timestamp)
  IN  IF prev_df.outcome = "raised" \/ new_df.outcome = "raised"
      THEN Raised(writes, requests, exact)
      ELSE IF IndexOf(index_list, data_from) = 0
              \/ IndexOf(index_list, final_timestamp) = 0
      THEN Raised(writes, requests, exact)
      ELSE Result("returned", sliced,
                  Append(writes, Write(SavedRows(index_list, sliced),
                                       Len(requests))),
                  requests, prev_df.df \o new_df.df, exact)

\* Lines 247-251 of read_data_from_datafile, after the before-gap download
\* prev_df: the after-gap download, unless prev_df raised.
ReadAfter(rows, listed, timeframe, data_from, data_to, tc, failAt, prev_df) ==
  ReadSlice(rows, Val(data_from), FinalTimestamp(Val(data_to), Val(tc)), prev_df,
            IF prev_df.outcome = "raised" THEN NoDownload
            ELSE IF NeedsAfter(FinalTimestamp(Val(data_to), Val(tc)),
                               rows[Len(rows)])
            THEN download_data_for_pair(listed, timeframe,
                                        Some(AfterGapStart(rows[Len(rows)], Val(tc))),
                                        data_to, tc, GapFillSave,
                                        failAt - Len(prev_df.requests))
            ELSE NoDownload)

read_data_from_datafile(file, listed, timeframe, data_from, data_to, tc, failAt) ==
  IF file.kind = "unreadable"
  THEN Result("false", << >>, << >>, << >>, << >>, TRUE)
  ELSE IF file.kind = "corrupt" \/ file.rows = << >>
         \/ IsNone(data_to) \/ IsNone(tc) \/ IsNone(data_from)
  THEN Raised(<< >>, << >>, TRUE)
  ELSE ReadAfter(file.rows, listed, timeframe, data_from, data_to, tc, failAt,
                 IF NeedsBefore(Val(data_from), file.rows[1])
                 THEN download_data_for_pair(listed, timeframe, data_from,
                                             Some(file.rows[1]), tc, GapFillSave,
                                             failAt)
                 ELSE NoDownload)

\* ------------------------------------------------------------------ inputs
PairA == <<"A", "/", "B">>
PairC == <<"C", "/", "D">>
Pairs == {PairA, PairC}
PairLists == {<< >>, <<PairA>>, <<PairA, PairC>>}

DateOf(d) == [valid |-> TRUE, day |-> d]
BadDate == [valid |-> FALSE, day |-> 0]
Dates == {DateOf(d) : d \in 0..MaxDay}

BaseConfig ==
  [exchange |-> "binance", timeframe |-> Tf12h, pairs |-> <<PairA>>,
   from |-> DateOf(0), to |-> DateOf(1), till_now |-> "False"]

\* Configurations that pass every start-up validation.
ValidConfigs ==
  {[BaseConfig EXCEPT !.pairs = ps, !.from = f, !.to = t] :
      ps \in PairLists \ {<< >>}, f \in Dates, t \in Dates}
  \cup {[BaseConfig EXCEPT !.pairs = ps, !.from = f, !.till_now = "True"] :
      ps \in PairLists \ {<< >>}, f \in Dates}
  \cup {[BaseConfig EXCEPT !.pairs = << >>]}

\* Configurations with one setting wrong.
InvalidFor(ps) ==
  {[BaseConfig EXCEPT !.pairs = ps, !.timeframe = tf] :
      tf \in {<<"h">>, <<"7", "m">>, Tf1d}}
  \cup {[BaseConfig EXCEPT !.pairs = ps, !.exchange = e] :
      e \in {"nope", "noohlcv", "notimeframes"}}
  \cup {[BaseConfig EXCEPT !.pairs = ps, !.till_now = "true"],
        [BaseConfig EXCEPT !.pairs = ps, !.from = BadDate],
        [BaseConfig EXCEPT !.pairs = ps, !.to = BadDate]}
InvalidConfigs ==
  InvalidFor(<<PairA>>) \cup {[BaseConfig EXCEPT !.pairs = << >>, !.till_now = "true"]}

Configs == ValidConfigs \cup InvalidConfigs

ConfigTimeframes == {c.timeframe : c \in Configs}
FilePaths ==
  {FilePath("binance", p, tf) : p \in Pairs, tf \in ConfigTimeframes}

\* The instants from which the exchange may have candles for the pairs.
Listings == {0, day}

\* ------------------------------------------------------------------- state
VARIABLES
  config,            \* self.config
  pc,                \* where the run is
  exchange,          \* self.exchange
  timeframe_calc,    \* self.timeframe_calc
  backtesting_from,  \* self.backtesting_from
  backtesting_to,    \* self.backtesting_to
  history_data,      \* DataModule.history_data (class attribute, one dict)
  idx,               \* position of the for loop of load_historical_data
  files,             \* the cache files on disk
  listing,           \* since when the exchange has candles
  clock,             \* readings taken of exchange.milliseconds()
  requests,          \* fetch_ohlcv requests of this run, in order
  opened,            \* paths read by this run
  written,           \* save_dataframe calls of this run, in order: the path
                     \* and the number of requests issued before the call
  handoff,           \* arguments of start_backtesting, when called
  last,              \* the record of this run's latest acquisition
  prev,              \* per pair, what its latest acquisition returned
  call               \* download_data_for_pair followed step by step: its
                     \* arguments and locals

vars == <<config, pc, exchange, timeframe_calc, backtesting_from,
          backtesting_to, history_data, idx, files, listing, clock,
          requests, opened, written, handoff, last, prev, call>>

NoGet ==
  [outcome |-> "none", pair |-> << >>, timeframe |-> << >>, tc |-> None, from |-> None,
   to |-> None, before |-> Absent, df |-> << >>, requests |-> << >>,
   fetched |-> << >>, exact |-> FALSE, repeat |-> FALSE, prevDf |-> << >>,
   prevExact |-> FALSE]

NoPrev ==
  [returned |-> FALSE, timeframe |-> << >>, from |-> None, to |-> None,
   df |-> << >>, exact |-> FALSE]

\* No download_data_for_pair is being followed.
NoCall ==
  [pair |-> << >>, data_from |-> 0, data_to |-> 0, save |-> FALSE,
   start_date |-> 0, index |-> << >>]

NoEntry == [present |-> FALSE, isdf |-> FALSE, index |-> << >>]
Frame(df) == [present |-> TRUE, isdf |-> TRUE, index |-> df]
FalseEntry == [present |-> TRUE, isdf |-> FALSE, index |-> << >>]

\* Before any DataModule is constructed.  A cache file may have been damaged
\* from outside; the program itself never damages one.
Init ==
  /\ config = BaseConfig
  /\ pc = "start"
  /\ exchange = None
  /\ timeframe_calc = None
  /\ backtesting_from = None
  /\ backtesting_to = None
  /\ history_data = [p \in Pairs |-> NoEntry]
  /\ idx = 1
  /\ \E damaged \in SUBSET {FilePath("binance", PairA, Tf12h)} :
       \E how \in {Unreadable, Corrupt} :
         files = [f \in FilePaths |-> IF f \in damaged THEN how ELSE Absent]
  /\ listing \in Listings
  /\ clock = 0
  /\ requests = << >>
  /\ opened = {}
  /\ written = << >>
  /\ handoff = << >>
  /\ last = NoGet
  /\ prev = [p \in Pairs |-> NoPrev]
  /\ call = NoCall

Ended == pc \in {"start", "done", "exit", "crashed"}

\* DataModule(config, backtesting_module), up to the first call of __init__.
\* The instance attributes start from the class attributes (None); the class
\* attribute history_data is one dict, shared with the earlier instances.
Construct(cfg) ==
  /\ Ended
  /\ cfg.till_now = "True" => clock < MaxClock
  /\ config' = cfg
  /\ pc' = "config_timeframe_calc"
  /\ exchange' = None
  /\ timeframe_calc' = None
  /\ backtesting_from' = None
  /\ backtesting_to' = None
  /\ idx' = 1
  /\ requests' = << >>
  /\ opened' = {}
  /\ written' = << >>
  /\ handoff' = << >>
  /\ last' = NoGet
  /\ UNCHANGED <<history_data, files, listing, clock, prev, call>>

config_timeframe_calc ==
  /\ pc = "config_timeframe_calc"
  /\ IF ~ReMatch(config.timeframe)
     THEN pc' = "exit" /\ UNCHANGED timeframe_calc
     ELSE /\ timeframe_calc' = TimeframeCalcOf(config.timeframe)
          /\ pc' = "load_exchange"
  /\ UNCHANGED <<config, exchange, backtesting_from, backtesting_to,
                 history_data, idx, files, listing, clock, requests, opened,
                 written, handoff, last, prev, call>>

\* The three checks of load_exchange, each raising SystemExit.
ExchangeFound(exchange_id) == exchange_id \in KnownExchanges
TimeframeAvailable(exchange_id, timeframe) ==
  /\ ~IsNone(Timeframes(exchange_id))
  /\ timeframe \in Val(Timeframes(exchange_id))

load_exchange ==
  /\ pc = "load_exchange"
  /\ IF ~ExchangeFound(config.exchange)
     THEN pc' = "exit" /\ UNCHANGED exchange
     ELSE /\ exchange' = Some(config.exchange)
          /\ IF ~HasFetchOHLCV(config.exchange)
             THEN pc' = "exit"
             ELSE IF ~TimeframeAvailable(config.exchange, config.timeframe)
             THEN pc' = "exit"
             ELSE pc' = "config_from_to"
  /\ UNCHANGED <<config, timeframe_calc, backtesting_from, backtesting_to,
                 history_data, idx, files, listing, clock, requests, opened,
                 written, handoff, last, prev, call>>

config_from_to ==
  /\ pc = "config_from_to"
  /\ backtesting_from' = parse8601(config.from)
  /\ IF config.till_now = "True"
     THEN /\ clock' = clock + 1
          /\ backtesting_to' = Some(milliseconds(clock + 1))
     ELSE IF config.till_now = "False"
     THEN /\ backtesting_to' = parse8601(config.to)
          /\ UNCHANGED clock
     ELSE UNCHANGED <<backtesting_to, clock>>
  /\ pc' = "load_historical_data"
  /\ UNCHANGED <<config, exchange, timeframe_calc, history_data, idx, files,
                 listing, requests, opened, written, handoff, last, prev, call>>

\* check_datafolder(pair): path.exists of the pair's datafile.
check_datafolder(path) == files[path].kind # "absent"

\* One iteration of the for loop of load_historical_data, for the pair at
\* position idx.  failAt > 0: the failAt-th fetch_ohlcv of this iteration
\* raises (a network error).  An exception leaves the loop and the run.
Acquire(path, failAt) ==
  IF ~check_datafolder(path)
  THEN download_data_for_pair(listing, config.timeframe, backtesting_from,
                              backtesting_to, timeframe_calc, TRUE, failAt)
  ELSE read_data_from_datafile(files[path], listing, config.timeframe,
                               backtesting_from, backtesting_to,
                               timeframe_calc, failAt)

load_pair(failAt) ==
  /\ pc = "load_historical_data"
  /\ idx <= Len(config.pairs)
  /\ LET pair == config.pairs[idx]
         path == FilePath(config.exchange, pair, config.timeframe)
         r == Acquire(path, failAt)
     IN  /\ requests' = requests \o r.requests
         /\ opened' = IF files[path].kind \in {"corrupt", "json"}
                      THEN opened \cup {path} ELSE opened
         /\ last' =
              [outcome |-> r.outcome, pair |-> pair,
               timeframe |-> config.timeframe,
               tc |-> timeframe_calc, from |-> backtesting_from,
               to |-> backtesting_to, before |-> files[path], df |-> r.df,
               requests |-> r.requests, fetched |-> r.fetched,
               exact |-> r.exact,
               repeat |-> /\ prev[pair].returned
                          /\ prev[pair].timeframe = config.timeframe
                          /\ prev[pair].from = backtesting_from
                          /\ prev[pair].to = backtesting_to,
               prevDf |-> prev[pair].df, prevExact |-> prev[pair].exact]
         /\ prev' = [prev EXCEPT ![pair] =
              IF r.outcome = "returned"
              THEN [returned |-> TRUE, timeframe |-> config.timeframe,
                    from |-> backtesting_from, to |-> backtesting_to,
                    df |-> r.df,
                    exact |-> r.exact]
              ELSE NoPrev]
         /\ files' = IF r.writes # << >>
                     THEN [files EXCEPT ![path] =
                             save_dataframe(r.writes[Len(r.writes)].rows)]
                     ELSE files
         /\ written' = written \o
              [i \in 1..Len(r.writes) |->
                 [path |-> path, after |-> Len(requests) + r.writes[i].after]]
         /\ IF r.outcome = "raised"
            THEN /\ pc' = "crashed"
                 /\ UNCHANGED <<history_data, idx>>
            ELSE /\ pc' = pc
                 /\ idx' = idx + 1
                 /\ history_data' = [history_data EXCEPT ![pair] =
                      IF r.outcome = "false" THEN FalseEntry ELSE Frame(r.df)]
  /\ UNCHANGED <<config, exchange, timeframe_calc, backtesting_from,
                 backtesting_to, listing, clock, handoff, call>>

\* The call that ends load_historical_data.
start_backtesting ==
  /\ pc = "load_historical_data"
  /\ idx > Len(config.pairs)
  /\ handoff' = <<[history_data |-> history_data, from |-> backtesting_from,
                  to |-> backtesting_to]>>
  /\ pc' = "done"
  /\ UNCHANGED <<config, exchange, timeframe_calc, backtesting_from,
                 backtesting_to, history_data, idx, files, listing, clock,
                 requests, opened, written, last, prev, call>>

\* Largest position of a failing fetch_ohlcv within one acquisition.
MaxFail == 2

Next ==
  \/ \E cfg \in Configs : Construct(cfg)
  \/ config_timeframe_calc
  \/ load_exchange
  \/ config_from_to
  \/ \E failAt \in 0..MaxFail : load_pair(failAt)
  \/ start_backtesting

Spec == Init /\ [][Next]_vars

\* ---------------------------------------------- the timeframe resolver alone
\* config_timeframe_calc applied to every string of at most MaxLen characters
\* over an alphabet with digits, both cases of the units, a sign and a letter
\* that is no unit.
Alphabet == {"0", "1", "2", "m", "h", "d", "M", "H", "x", "-"}
Strings == UNION {[1..n -> Alphabet] : n \in 0..MaxLen}

InitTimeframe ==
  /\ config \in {[BaseConfig EXCEPT !.timeframe = tf] : tf \in Strings}
  /\ pc = "config_timeframe_calc"
  /\ exchange = None
  /\ timeframe_calc = None
  /\ backtesting_from = None
  /\ backtesting_to = None
  /\ history_data = [p \in Pairs |-> NoEntry]
  /\ idx = 1
  /\ files = [f \in FilePaths |-> Absent]
  /\ listing = 0
  /\ clock = 0
  /\ requests = << >>
  /\ opened = {}
  /\ written = << >>
  /\ handoff = << >>
  /\ last = NoGet
  /\ prev = [p \in Pairs |-> NoPrev]
  /\ call = NoCall

NextTimeframe == config_timeframe_calc

SpecTimeframe == InitTimeframe /\ [][NextTimeframe]_vars

\* ------------------------------------------ download_data_for_pair by steps
\* One call download_data_for_pair(pair, data_from, data_to, save) followed
\* iteration by iteration, on ranges long enough for several pages.
\* Largest number of whole pages in a range.
MaxPages == 2

DownloadTimeframes == {Tf1m, Tf1h}
\* Bucket counts of the ranges: around each multiple of the page size for the
\* minute timeframe, one day of hours for the hour timeframe.
Counts(timeframe) ==
  IF timeframe = Tf1h THEN {24}
  ELSE {k * fetch_ohlcv_limit + r : k \in 0..MaxPages, r \in {-1, 0, 1}} \ {-1}
\* The exchange has candles from the epoch on, from the middle of the first
\* page on, or not at all within the range.
NeverListed == 20 * day
DownloadListings == {0, 500 * minute, NeverListed}
DownloadPaths == {FilePath("binance", p, tf) : p \in Pairs, tf \in DownloadTimeframes}

InitDownload ==
  /\ \E tf \in DownloadTimeframes :
       /\ config = [BaseConfig EXCEPT !.timeframe = tf]
       /\ timeframe_calc = TimeframeCalcOf(tf)
       /\ \E first \in {0, 3}, n \in Counts(tf), part \in {0, 1}, save \in BOOLEAN :
            LET D == Val(TimeframeCalcOf(tf))
                data_from == first * D
                data_to == data_from + n * D + part * (D \div 2)
            IN  call = [pair |-> PairA, data_from |-> data_from,
                        data_to |-> data_to, save |-> save,
                        start_date |-> data_from, index |-> << >>]
  /\ pc = "while"
  /\ exchange = Some("binance")
  /\ backtesting_from = None
  /\ backtesting_to = None
  /\ history_data = [p \in Pairs |-> NoEntry]
  /\ idx = 1
  /\ \E old \in {Absent, Json(<<0>>)} :
       files = [f \in DownloadPaths |->
                  IF f = FilePath("binance", PairA, config.timeframe)
                  THEN old ELSE Json(<<0>>)]
  /\ listing \in DownloadListings
  /\ clock = 0
  /\ requests = << >>
  /\ opened = {}
  /\ written = << >>
  /\ handoff = << >>
  /\ last = NoGet
  /\ prev = [p \in Pairs |-> NoPrev]

\* One iteration of 'while start_date < data_to'; the fetch_ohlcv either
\* answers or raises.
fetch_page(raises) ==
  /\ pc = "while"
  /\ call.start_date < call.data_to
  /\ LET tc == Val(timeframe_calc)
         limit == AskedLimit(call.start_date, call.data_to, tc)
         result == fetch_ohlcv(listing, config.timeframe, call.start_date, limit)
     IN  /\ requests' = Append(requests, [since |-> call.start_date, limit |-> limit])
         /\ IF raises
            THEN pc' = "raised" /\ UNCHANGED call
            ELSE /\ pc' = pc
                 /\ call' = [call EXCEPT
                      !.index = @ \o result,
                      !.start_date = @ + Advance(@, call.data_to, tc)]
  /\ UNCHANGED <<config, exchange, timeframe_calc, backtesting_from,
                 backtesting_to, history_data, idx, files, listing, clock,
                 opened, written, handoff, last, prev>>

\* The loop is left: the DataFrame is built, saved when 'save', and returned.
return_df ==
  /\ pc = "while"
  /\ ~(call.start_date < call.data_to)
  /\ pc' = "returned"
  /\ LET path == FilePath(config.exchange, call.pair, config.timeframe)
     IN  IF call.save
         THEN /\ files' = [files EXCEPT ![path] = save_dataframe(call.index)]
              /\ written' = Append(written, [path |-> path, after |-> Len(requests)])
         ELSE UNCHANGED <<files, written>>
  /\ UNCHANGED <<config, exchange, timeframe_calc, backtesting_from,
                 backtesting_to, history_data, idx, listing, clock, requests,
                 opened, handoff, last, prev, call>>

NextDownload ==
  \/ \E raises \in BOOLEAN : fetch_page(raises)
  \/ return_df

\* The interpreter keeps executing the call: a step that is enabled is taken.
SpecDownload == InitDownload /\ [][NextDownload]_vars /\ WF_vars(NextDownload)

\* =================================================================== claims
\* Vocabulary of the claims about one acquisition ("get"): the acquisition
\* recorded in 'last', its window [LastFrom, LastTo) and bucket length LastD.
TsSet(rows) == {rows[i] : i \in 1..Len(rows)}

Contiguous(rows, D) ==
  /\ rows # << >>
  /\ \A i \in 1..(Len(rows) - 1) : rows[i + 1] - rows[i] = D

Acquired == last.outcome # "none"
Returned == last.outcome = "returned"
LastFrom == Val(last.from)
LastTo == Val(last.to)
LastD == Val(last.tc)
LastPath == FilePath(config.exchange, last.pair, last.timeframe)

\* The window is resolved and non-empty.
WindowResolved ==
  /\ ~IsNone(last.from) /\ ~IsNone(last.to) /\ ~IsNone(last.tc)
  /\ LastD > 0
  /\ LastFrom < LastTo
\* ... and lies on the grid of the timeframe.
WindowAligned ==
  /\ WindowResolved
  /\ LastFrom % LastD = 0
  /\ LastTo % LastD = 0

\* The cache before the acquisition: no record, or a contiguous range.
CachedRange ==
  /\ last.before.kind = "json"
  /\ Contiguous(last.before.rows, LastD)
PriorCacheOK == last.before = Absent \/ CachedRange
T0 == last.before.rows[1]
T1 == last.before.rows[Len(last.before.rows)]

\* The hypotheses of the contract of get: a grid-aligned window, a prior
\* cache that is absent or contiguous, full answers from the exchange.
GetPre == Acquired /\ WindowAligned /\ PriorCacheOK /\ last.exact

\* C1: under the hypotheses of get, the returned series has consecutive
\* timestamps exactly one bucket apart (no gap, no timestamp twice).
C1_NoGapsNoDuplicates ==
  GetPre => Returned /\ Contiguous(last.df, LastD)

\* C2: under the hypotheses of get, the returned series starts at window.from
\* and ends at window.to - D.
C2_SlicingExact ==
  GetPre =>
    /\ Returned
    /\ last.df # << >>
    /\ last.df[1] = LastFrom
    /\ last.df[Len(last.df)] = LastTo - LastD

\* C2 witness: a get over a cached range that starts before the window and
\* ends inside it, so that the slice cuts the front and an after-gap download
\* supplies the end.
C2_Witness ==
  /\ GetPre /\ Returned /\ CachedRange
  /\ T0 < LastFrom
  /\ T1 < LastTo - LastD
  /\ last.requests # << >>

\* C3: a request [T0 - k*D, T1 + m*D) over a cache [T0, T1] returns exactly
\* (T1-T0)/D + k + m + 1 candles, strictly increasing and spaced by D.  Stated
\* for k >= 0 and m >= 2, the requests that reach past the bucket after T1 as
\* the instance of the claim does (m = 7).
C3_ExtensionCount ==
  (GetPre /\ CachedRange /\ LastFrom <= T0 /\ LastTo >= T1 + 2 * LastD) =>
    /\ Returned
    /\ Len(last.df) = (T1 - T0) \div LastD + (T0 - LastFrom) \div LastD
                      + (LastTo - T1) \div LastD + 1
    /\ Contiguous(last.df, LastD)

\* C4: a cache file that cannot be opened or parsed is treated as no cache:
\* the get returns what a full download of the window returns and leaves
\* exactly that in the cache record.
FullDownload ==
  download_data_for_pair(listing, last.timeframe, last.from, last.to,
                         last.tc, TRUE, 0)
C4_CorruptAsNoCache ==
  (Acquired /\ WindowAligned /\ last.exact
     /\ last.before.kind \in {"corrupt", "unreadable"}) =>
    /\ Returned
    /\ last.df = FullDownload.df
    /\ files[LastPath] = save_dataframe(FullDownload.df)

C6_CoverageNeverShrinks ==
  (Returned /\ last.before.kind = "json") =>
    TsSet(files[LastPath].rows)
      = TsSet(last.before.rows) \cup TsSet(last.fetched)

\* C6 (amended): a get over an existing cache record writes back the slice it
\* returns: the record afterwards is the returned series, and its buckets are
\* those of the extended series that lie in [window.from, window.to - D].
C6_CacheHoldsWindowSlice ==
  (Returned /\ last.before.kind = "json") =>
    /\ files[LastPath] = save_dataframe(last.df)
    /\ TsSet(files[LastPath].rows)
         = {t \in TsSet(last.before.rows) \cup TsSet(last.fetched) :
              LastFrom <= t /\ t <= LastTo - LastD}

\* C6 witness: a get over an existing record returned and the record lost a
\* bucket it held before the call.
C6_Witness ==
  /\ Returned /\ last.before.kind = "json"
  /\ ~(TsSet(last.before.rows) \subseteq TsSet(files[LastPath].rows))

\* The buckets a fetch_ohlcv request asks the exchange for.
RequestedBuckets(req, D) == {req.since + i * D : i \in 0..(req.limit - 1)}

\* C7: a get whose window the cached range covers issues no request, and no
\* get requests a bucket that the cache record already holds.
C7_IncrementalOnly ==
  (Acquired /\ WindowAligned /\ CachedRange) =>
    /\ (T0 <= LastFrom /\ LastTo - LastD <= T1) => last.requests = << >>
    /\ \A i \in 1..Len(last.requests) :
         RequestedBuckets(last.requests[i], LastD)
           \cap TsSet(last.before.rows) = {}

\* C8: an acquisition that fails for one pair does not end the run while
\* pairs of the list are still to be processed.
C8_PerPairIsolation ==
  (config \in ValidConfigs /\ last.outcome = "raised") =>
    ~(pc = "crashed" /\ idx < Len(config.pairs))

\* C9: config_timeframe_calc either aborts or leaves a positive integer; it
\* accepts exactly the strings "<n>m" and "<n>h" with n a positive integer,
\* with the values n*60000 and n*3600000.
WellFormed(timeframe) ==
  /\ Len(timeframe) >= 2
  /\ \A i \in 1..(Len(timeframe) - 1) : timeframe[i] \in Digits
  /\ timeframe[Len(timeframe)] \in {"m", "h"}
  /\ IntOf(SubSeq(timeframe, 1, Len(timeframe) - 1)) > 0
DurationMs(timeframe) ==
  IntOf(SubSeq(timeframe, 1, Len(timeframe) - 1))
    * (IF timeframe[Len(timeframe)] = "m" THEN 60000 ELSE 3600000)
C9_TimeframeTotalExact ==
  pc \in {"exit", "load_exchange"} =>
    IF WellFormed(config.timeframe)
    THEN pc = "load_exchange"
         /\ timeframe_calc = Some(DurationMs(config.timeframe))
    ELSE pc = "exit"

\* C10: when a start-up validation fails the run stops there: no fetch_ohlcv
\* request, no cache file read or written, no start_backtesting; and a request
\* is issued only after every validation passed and the window is resolved.
ValidationFails(cfg) ==
  \/ ~ReMatch(cfg.timeframe)
  \/ ~ExchangeFound(cfg.exchange)
  \/ ~HasFetchOHLCV(cfg.exchange)
  \/ ~TimeframeAvailable(cfg.exchange, cfg.timeframe)
  \/ cfg.till_now \notin {"True", "False"}
C10_ValidationFatal ==
  /\ (pc # "start" /\ ValidationFails(config)) =>
       /\ requests = << >>
       /\ opened = {}
       /\ written = << >>
       /\ handoff = << >>
  /\ requests # << >> =>
       /\ ~ValidationFails(config)
       /\ ~IsNone(backtesting_from) /\ ~IsNone(backtesting_to)

\* Vocabulary of the claims about one download_data_for_pair followed by
\* steps: the range [CallFrom, CallTo), the bucket length CallD, the cursor.
CallFrom == call.data_from
CallTo == call.data_to
CallD == Val(timeframe_calc)
Cursor == call.start_date
Exited == pc = "returned"

\* ceil((to - from) / (fetch_ohlcv_limit * D)), without forming the product.
PagesNeeded(data_from, data_to, D) ==
  LET q == (data_to - data_from) \div D
      r == (data_to - data_from) % D
  IN  IF q % fetch_ohlcv_limit = 0 /\ r = 0
      THEN q \div fetch_ohlcv_limit
      ELSE q \div fetch_ohlcv_limit + 1

\* round(min((to - cursor) / D, 1000) * D): the rest of the range, or a page.
StepOf(cursor, data_to, D) ==
  IF (data_to - cursor) \div D < fetch_ohlcv_limit
  THEN data_to - cursor
  ELSE fetch_ohlcv_limit * D

\* The cursor after the i-th request (the cursor now, for the latest one).
CursorAfter(i) ==
  IF i < Len(requests) THEN requests[i + 1].since ELSE Cursor

\* C11: for from < to and D > 0, whatever the exchange returns (all, fewer or
\* no candles), every iteration moves the cursor forward by
\* round(min((to - cursor)/D, 1000) * D), the loop never runs more than
\* ceil((to - from)/(1000*D)) iterations, it exits with cursor >= to after
\* exactly that many, and the call always comes to an end.
C11_PaginationTerminates ==
  /\ []((CallFrom < CallTo /\ CallD > 0 /\ pc # "raised") =>
          /\ \A i \in 1..Len(requests) :
               /\ CursorAfter(i) > requests[i].since
               /\ CursorAfter(i)
                    = requests[i].since + StepOf(requests[i].since, CallTo, CallD)
          /\ Len(requests) <= PagesNeeded(CallFrom, CallTo, CallD)
          /\ Exited => /\ Cursor >= CallTo
                       /\ Len(requests) = PagesNeeded(CallFrom, CallTo, CallD))
  /\ <>(pc \in {"returned", "raised"})

\* C11 witness: a call over more than one page has come to its end although
\* the exchange returned no candle on any page.
C11_Witness ==
  /\ Exited
  /\ CallFrom < CallTo
  /\ Len(requests) >= 2
  /\ call.index = << >>

\* The range of the call lies on the grid of the timeframe and holds
\* CallN >= 1 buckets.
CallAligned ==
  /\ CallD > 0
  /\ CallFrom % CallD = 0
  /\ CallTo % CallD = 0
  /\ CallFrom < CallTo
CallN == (CallTo - CallFrom) \div CallD

\* C12: over a grid-aligned range of N >= 1 buckets the i-th request
\* (i = 0, 1, ...) has since = from + 1000*i*D and limit = min(N - 1000*i,
\* 1000), so 1 <= limit <= 1000 and each request starts where the one before
\* it ends; the finished call has issued ceil(N/1000) requests whose limits
\* sum to N.  Timeframe 1h over 24 hours: one request with limit 24.
C12_PagesTileRange ==
  CallAligned =>
    /\ \A i \in 1..Len(requests) :
         /\ requests[i].since = CallFrom + (fetch_ohlcv_limit * (i - 1)) * CallD
         /\ requests[i].limit
              = (IF CallN - fetch_ohlcv_limit * (i - 1) < fetch_ohlcv_limit
                 THEN CallN - fetch_ohlcv_limit * (i - 1)
                 ELSE fetch_ohlcv_limit)
         /\ 1 <= requests[i].limit /\ requests[i].limit <= fetch_ohlcv_limit
         /\ i < Len(requests) =>
              requests[i + 1].since
                = requests[i].since + requests[i].limit * CallD
    /\ Exited =>
         /\ Len(requests)
              = (CallN + fetch_ohlcv_limit - 1) \div fetch_ohlcv_limit
         /\ SumLimits(requests) = CallN
         /\ (config.timeframe = Tf1h /\ CallTo - CallFrom = 24 * hour) =>
              requests = <<[since |-> CallFrom, limit |-> 24]>>

\* C12 witness: a finished call over a range one bucket longer than two
\* pages: three requests, the last one for a single candle.
C12_Witness ==
  /\ Exited /\ CallAligned
  /\ Len(requests) = 3
  /\ requests[3].limit = 1

\* The buckets of the grid in [a, b), and the buckets that those requests of
\* the get ask for whose 'since' satisfies the test.
GridRange(a, b, D) == {a + i * D : i \in 0..((b - a) \div D - 1)}
BeforeGapRequests == {i \in 1..Len(last.requests) : last.requests[i].since < T0}
AfterGapRequests == {i \in 1..Len(last.requests) : last.requests[i].since >= T0}
BucketsOf(is) == UNION {RequestedBuckets(last.requests[i], LastD) : i \in is}

\* C13: over a cache record [cached_from, cached_to], (a) a before-gap
\* download happens iff window.from < cached_from and asks for exactly the
\* buckets of [window.from, cached_from); (b) an after-gap download happens
\* iff window.to - D > cached_to and asks for exactly the buckets of
\* (cached_to, window.to): it starts at cached_to + D and does not ask for
\* cached_to again.
C13_GapFillExact ==
  (GetPre /\ CachedRange) =>
    /\ (BeforeGapRequests # {}) <=> (LastFrom < T0)
    /\ BucketsOf(BeforeGapRequests) = GridRange(LastFrom, T0, LastD)
    /\ (AfterGapRequests # {}) <=> (LastTo - LastD > T1)
    /\ BucketsOf(AfterGapRequests) = GridRange(T1 + LastD, LastTo, LastD)

\* C14: after a get that returns a series, with or without a cache record
\* before it, the cache record of (pair, timeframe) holds exactly the series
\* that was returned: the same timestamps in the same order.
C14_CacheEqualsReturned ==
  Returned =>
    /\ files[LastPath].kind = "json"
    /\ files[LastPath].rows = last.df

\* C14 witness: a get over an existing record fetched candles for a gap,
\* returned, and left a record that differs from the one it found.
C14_Witness ==
  /\ Returned
  /\ last.before.kind = "json"
  /\ last.fetched # << >>
  /\ files[LastPath] # last.before
  /\ Len(last.df) > 1

\* C15: one acquisition touches no cache file but the one of its pair; a get
\* that returns a series calls save_dataframe exactly once, after every
\* fetch_ohlcv request of the get (the gap-fill downloads save nothing, the
\* primary download saves its own pair's record); a get that does not return
\* a series (a fetch of a gap-fill download failed, among others) leaves
\* every cache file as it was.
C15_PersistFrame ==
  [][(pc = "load_historical_data" /\ idx <= Len(config.pairs)) =>
       LET path == FilePath(config.exchange, config.pairs[idx], config.timeframe)
       IN  /\ \A f \in DOMAIN files : f # path => files'[f] = files[f]
           /\ last'.outcome = "returned" =>
                written' = Append(written, [path |-> path,
                                            after |-> Len(requests')])
           /\ last'.outcome # "returned" =>
                /\ files' = files
                /\ written' = written]_vars

\* C15 witness: a get over an existing record made a gap-fill request and
\* then saved the record, the only save of the run so far.
C15_Witness ==
  /\ Returned
  /\ last.before.kind = "json"
  /\ last.requests # << >>
  /\ Len(written) = 1
  /\ written[1].after = Len(requests)

\* The get recorded in 'last' as it runs when no fetch_ohlcv raises.
ReadUndisturbed ==
  read_data_from_datafile(last.before, listing, last.timeframe, last.from,
                          last.to, last.tc, 0)

\* C16: over a parsable, non-empty cache record and a window with from < to,
\* window.from and window.to - D are found in the (possibly extended) series
\* and read_data_from_datafile returns a series; also when window.to is the
\* current time, and when the exchange answers a gap-fill download with
\* fewer candles than requested.
C16_SliceLookupSucceeds ==
  (Acquired /\ WindowResolved
     /\ last.before.kind = "json" /\ last.before.rows # << >>) =>
    ReadUndisturbed.outcome = "returned"

\* The pairs configured for the run.
ConfiguredPairs == {config.pairs[i] : i \in 1..Len(config.pairs)}

\* C17: when a run has completed acquisition, start_backtesting has been
\* called once, after the last configured pair, with the resolved window and
\* a mapping whose keys are exactly the pairs configured for this run, each
\* pair that yielded a series mapped to the series this run acquired for it;
\* nothing of an earlier run in the same process is in the mapping.
C17_HandOff ==
  pc = "done" =>
    /\ Len(handoff) = 1
    /\ idx = Len(config.pairs) + 1
    /\ handoff[1].from = backtesting_from
    /\ handoff[1].to = backtesting_to
    /\ \A p \in Pairs :
         /\ handoff[1].history_data[p].present <=> p \in ConfiguredPairs
         /\ (p \in ConfiguredPairs /\ handoff[1].history_data[p].isdf) =>
              /\ prev[p].returned
              /\ handoff[1].history_data[p].index = prev[p].df

====
